---- MODULE Spec2Model ----
(***************************************************************************)
(* A model of the nonogram package: clues (gram.Nonoclue), puzzles         *)
(* (gram.Nonogram), grids (grid.NonogridArray), the per-clue solution      *)
(* enumerator (solve.utils.ClueSolutions) and the two solvers of           *)
(* solve.detsearch (ClueChooser and NaiveSolver).                          *)
(*                                                                         *)
(* Python values are modelled as follows.  A bool is the integer 0 or 1    *)
(* (as in Python, where bool is a subclass of int); None is NoneCell.  A   *)
(* list is a sequence; Python's 0-based index i is position i + 1.  A call *)
(* that may raise returns a record [err, val] with err = "none" when it    *)
(* returns normally.  The value a solver hands back is a record            *)
(* [kind, grids] with kind one of "grid", "list", "DNE", "INC" or the name *)
(* of the exception that left solve().                                     *)
(***************************************************************************)
EXTENDS Integers, Sequences, FiniteSets

VARIABLES
    \* ---- the solvers (specification Spec) ----
    rows,            \* Nonogram.rows: the normalised row clues
    cols,            \* Nonogram.cols: the normalised column clues
    collect,         \* the collect argument of solve()
    pc,              \* where the run is
    frames,          \* ClueChooser: the live calls of _find_solution_rec, one row iterator each
    grid_builder,    \* ClueChooser: the shared grid_builder list
    collector,       \* ClueChooser: the shared collector list
    cc_searched,     \* ClueChooser: _find_solution has been entered
    cc_result,       \* what ClueChooser.solve() handed back
    n_idx,           \* NaiveSolver: how many grids _grid_iterator has yielded
    maxim_num,       \* NaiveSolver.max_sat: maxim_num
    maxim_list,      \* NaiveSolver.max_sat: maxim_list
    n_result,        \* what NaiveSolver.solve() handed back
    \* ---- one clue (specifications SpecClue and SpecLen) ----
    clue,            \* ClueSolutions.clue / the Nonoclue under test
    target_length,   \* ClueSolutions.target_length
    sequence,        \* the argument of Nonoclue.satisfied_by
    sat_result,      \* the value of Nonoclue.satisfied_by(sequence)
    len_result,      \* the outcome of len(ClueSolutions(clue, target_length))
    it,              \* the generator returned by ClueSolutions.__iter__
    yielded,         \* the solutions the generator has yielded so far
    \* ---- constructors and grid calls (SpecNonoclue, SpecGram, SpecCount,
    \* ---- SpecArray, SpecIndex) ----
    args,            \* the arguments of Nonoclue(args)
    new_clue,        \* the outcome of Nonoclue(args): its .clue, or the exception
    raw_rows,        \* the rows argument of Nonogram(rows, cols)
    raw_cols,        \* the cols argument of Nonogram(rows, cols)
    array,           \* the NonogridArray under test
    call,            \* the call made last, with its arguments
    call_result,     \* the outcome of that call
    \* ---- repeated use of one object (Spec and SpecRestart) ----
    earlier,         \* what the earlier solve() calls on the two solvers handed back
    gens,            \* the generators started on one ClueSolutions object
    gen_yielded      \* what each of them has yielded so far

solver_vars == <<rows, cols, collect, pc, frames, grid_builder, collector,
                 cc_searched, cc_result, n_idx, maxim_num, maxim_list, n_result>>
clue_vars == <<clue, target_length, sequence, sat_result, len_result, it, yielded>>
obj_vars == <<args, new_clue, raw_rows, raw_cols, array, call, call_result>>
run_vars == <<earlier, gens, gen_yielded>>
vars == <<solver_vars, clue_vars, obj_vars, run_vars>>

-----------------------------------------------------------------------------
(* Bounds of the model. *)

\* Spec: a puzzle has at most MaxCells cells (height * width) and lines.
MaxCells == 4
\* Spec: a clue put in place of a line's own clue needs at most MaxSpan cells.
MaxSpan == 3
\* SpecSat: clues that need at most SatSpan cells, checked against lists of
\* at most MaxSeqLen values.
SatSpan == 4
MaxSeqLen == 4
\* SpecClue: clues that need at most ClueSpan cells, enumerated at the
\* target lengths 0..MaxTarget.
ClueSpan == 7
MaxTarget == 7
\* SpecLen: clues that need at most LenSpan cells, counted at the target
\* lengths 0..LenTarget.
LenSpan == 10
LenTarget == 10
\* SpecGram: Nonogram(rows, cols) is given at most MaxRawLen clues a side.
MaxRawLen == 3
\* SpecNonoclue: the arguments of Nonoclue(args) hold at most MaxNodes
\* numbers and iterables, nested in any way, the numbers from -1 to MaxRun.
MaxNodes == 4
MaxRun == 2
\* SpecArray and SpecIndex: grids of at most MaxSide rows and columns; the
\* data given to the constructor has up to one row and one element more,
\* and an index goes one further still, on either side.
MaxSide == 2
\* SpecRestart: clues that need at most RestartSpan cells, at the target
\* lengths 0..RestartTarget, iterated by at most RestartIters generators.
RestartSpan == 4
RestartTarget == 5
RestartIters == 2
\* SpecAbc: max_sat of a solver that inherits solve() reports up to AbcClues
\* satisfied clues, of a nonogram with up to AbcClues clues.
AbcClues == 4
\* SpecLegacy: the legacy Nonogram has at most LegacyLines clues a side,
\* each needing at most LegacySpan cells, and is checked against arrays of
\* at least one row and at most LegacyCells cells and rows.
LegacyLines == 1
LegacySpan == 1
LegacyCells == 3

-----------------------------------------------------------------------------
(* Python values. *)

\* None, as a grid cell (grid.py: default_val=None).
NoneCell == -1

\* bool(v) for a cell value v.
Bool(v) == IF v = NoneCell \/ v = 0 THEN 0 ELSE 1

Ok(v) == [err |-> "none", val |-> v]
Raised(e) == [err |-> e, val |-> 0]

Res(kind, grids) == [kind |-> kind, grids |-> grids]
NoResult == Res("none", <<>>)

\* bool(value) for a value solve() returned: SolveFailure.__bool__ is False,
\* a NonogridArray defines neither __bool__ nor __len__ and so is true, a
\* list is true when it is not empty.
Truthy(res) ==
    IF res.kind \in {"DNE", "INC"} THEN FALSE
    ELSE IF res.kind = "list" THEN res.grids # <<>>
    ELSE TRUE

RECURSIVE Sum(_)
\* sum(clue)
Sum(s) == IF s = <<>> THEN 0 ELSE Head(s) + Sum(Tail(s))

\* [v] * k
Repeat(v, k) == [i \in 1..k |-> v]

\* The last element dropped (list.pop() on a non-empty list).
Front(s) == SubSeq(s, 1, Len(s) - 1)

-----------------------------------------------------------------------------
(* gram.Nonoclue *)

\* What Nonoclue(args) is given: an argument is a number, for which int()
\* succeeds, or an iterable of such arguments, for which int() raises
\* TypeError.
Num(n) == [tag |-> "int", num |-> n, items |-> <<>>]
Iterable(items) == [tag |-> "seq", num |-> 0, items |-> items]

\* reversed(itm)
Reversed(s) == [i \in 1..Len(s) |-> s[Len(s) + 1 - i]]

RECURSIVE InitClueNoReverse(_, _)
InitClueNoReverse(stack, clue_acc) ==
    IF stack = <<>> THEN Ok(clue_acc)
    ELSE LET itm == stack[Len(stack)]
         IN  IF itm.tag = "int"
             THEN IF itm.num < 0 THEN Raised("ValueError")
                  ELSE InitClueNoReverse(Front(stack),
                           IF itm.num > 0 THEN Append(clue_acc, itm.num) ELSE clue_acc)
             ELSE InitClueNoReverse(Front(stack) \o itm.items, clue_acc)

RECURSIVE InitClueSkipNegative(_, _)
InitClueSkipNegative(stack, clue_acc) ==
    IF stack = <<>> THEN Ok(clue_acc)
    ELSE LET itm == stack[Len(stack)]
         IN  IF itm.tag = "int"
             THEN InitClueSkipNegative(Front(stack),
                      IF itm.num > 0 THEN Append(clue_acc, itm.num) ELSE clue_acc)
             ELSE InitClueSkipNegative(Front(stack) \o Reversed(itm.items), clue_acc)

RECURSIVE InitClueStack(_, _)
\* The loop of Nonoclue._init_clue, with the stack (its top is the last
\* element) and the clue built so far.
InitClueStack(stack, clue_acc) ==
    IF stack = <<>> THEN Ok(clue_acc)
    ELSE LET itm == stack[Len(stack)]
         IN  IF itm.tag = "int"
             THEN IF itm.num < 0 THEN Raised("ValueError")
                  ELSE InitClueStack(Front(stack),
                           IF itm.num > 0 THEN Append(clue_acc, itm.num) ELSE clue_acc)
             ELSE InitClueStack(Front(stack) \o Reversed(itm.items), clue_acc)

\* Nonoclue(args): _init_clue([args]).
Nonoclue(arguments) == InitClueStack(<<Iterable(arguments)>>, <<>>)

\* Nonoclue(elem) for a list elem of numbers.
NonoclueOfList(elem) == Nonoclue(<<Iterable([i \in 1..Len(elem) |-> Num(elem[i])])>>)

RECURSIVE SatScan(_, _, _, _, _)
\* The loop of Nonoclue.satisfied_by from position i on, with the loop's
\* cur_hint and line; position Len(s) + 1 is the closing False of _bool_iter.
SatScan(c, s, i, cur_hint, line) ==
    IF i > Len(s) + 1 THEN cur_hint = Len(c)
    ELSE LET square == IF i <= Len(s) THEN Bool(s[i]) ELSE 0
             line2 == line + square
         IN  IF square = 0 /\ line2 > 0
             THEN IF cur_hint = Len(c) \/ line2 # c[cur_hint + 1]
                  THEN FALSE
                  ELSE SatScan(c, s, i + 1, cur_hint + 1, 0)
             ELSE SatScan(c, s, i + 1, cur_hint, line2)

SatisfiedByOneShort(c, s) == SatScan(c, Front(s), 1, 0, 0)

\* Nonoclue.satisfied_by(sequence)
SatisfiedBy(c, s) == SatScan(c, s, 1, 0, 0)

-----------------------------------------------------------------------------
(* gram.Nonogram *)

RECURSIVE TrimFront(_)
TrimFront(cs) == IF cs # <<>> /\ Head(cs) = <<>> THEN TrimFront(Tail(cs)) ELSE cs

RECURSIVE TrimBack(_)
TrimBack(cs) == IF cs # <<>> /\ cs[Len(cs)] = <<>> THEN TrimBack(Front(cs)) ELSE cs

InitCluesDropAll(clue_seq) ==
    LET clues == [i \in 1..Len(clue_seq) |-> NonoclueOfList(clue_seq[i]).val]
        kept(c) == c # <<>>
    IN  SelectSeq(clues, kept)

\* Nonogram._init_clues for clue lists of non-negative numbers: every element
\* is cast to a Nonoclue, then the empty clues at both ends are removed.
InitClues(clue_seq) ==
    LET clues == [i \in 1..Len(clue_seq) |-> NonoclueOfList(clue_seq[i]).val]
    IN  TrimBack(TrimFront(clues))

Height == Len(rows)
Width == Len(cols)
NumClues == Height + Width

-----------------------------------------------------------------------------
(* grid.NonogridArray *)

\* A grid is a record [height, width, default_val, grid]: _height, _width,
\* _default_val and the list of rows _grid.

IdxValidWrapping(g, r, c) ==
    /\ -g.height <= r /\ r < g.height
    /\ -g.width <= c /\ c < g.width

\* The condition of Nonogrid._idx_validation's wrapper.
IdxValid(g, r, c) ==
    /\ 0 <= r /\ r < g.height
    /\ 0 <= c /\ c < g.width

\* The position (from 1) that Python's lst[i] reads in a list of n elements,
\* for -n <= i < n: a negative index counts from the end.
PyIndex(n, i) == IF i < 0 THEN n + i + 1 ELSE i + 1

\* NonogridArray.__getitem__: grid[r, c].
GetItem(g, r, c) ==
    IF ~IdxValid(g, r, c) THEN Raised("IndexError")
    ELSE Ok(g.grid[PyIndex(g.height, r)][PyIndex(g.width, c)])

\* NonogridArray.__setitem__: grid[r, c] = v, as [err, grid].
SetItem(g, r, c, v) ==
    IF ~IdxValid(g, r, c) THEN [err |-> "IndexError", grid |-> g]
    ELSE [err |-> "none",
          grid |-> [g EXCEPT !.grid[PyIndex(g.height, r)][PyIndex(g.width, c)] = v]]

InfiniteGeneratorNoFallback(g, iterator, default, k) ==
    IF k <= Len(iterator) THEN iterator[k] ELSE default

\* The k-th value (from 1) of _infinite_generator(iterator, default) over
\* cell values: the iterator's, then default, or _default_val when default
\* is None.
InfiniteGenerator(g, iterator, default, k) ==
    IF k <= Len(iterator) THEN iterator[k]
    ELSE IF default = NoneCell THEN g.default_val ELSE default

RECURSIVE SetRowFrom(_, _, _, _, _)
\* The loop of Nonogrid.set_row from column c on.
SetRowFrom(g, r, data, default_val, c) ==
    IF c >= g.width THEN [err |-> "none", grid |-> g]
    ELSE LET set == SetItem(g, r, c, InfiniteGenerator(g, data, default_val, c + 1))
         IN  IF set.err # "none" THEN set
             ELSE SetRowFrom(set.grid, r, data, default_val, c + 1)

SetRowIgnoringDefault(g, r, data, default_val) == SetRowFrom(g, r, data, NoneCell, 0)

\* Nonogrid.set_row(r, data, default_val)
SetRow(g, r, data, default_val) == SetRowFrom(g, r, data, default_val, 0)

RECURSIVE SetColFrom(_, _, _, _, _)
\* The loop of Nonogrid.set_col from row r on, over the values of first.
SetColFrom(g, c, first, default_val, r) ==
    IF r >= g.height THEN [err |-> "none", grid |-> g]
    ELSE LET set == SetItem(g, r, c, InfiniteGenerator(g, first, default_val, r + 1))
         IN  IF set.err # "none" THEN set
             ELSE SetColFrom(set.grid, c, first, default_val, r + 1)

\* Nonogrid.set_col(c, data, default_val). data is [kind, items]: the list
\* items, the iterator iter(items), or ("nested") the iterator iter([items]).
\* next(data) is applied to the argument itself: a list is not an iterator,
\* an empty iterator raises StopIteration, and what _infinite_generator
\* then iterates over is the first element of data, which the first
\* next(data_iter) of the loop finds not iterable when it is a plain value.
SetCol(g, c, data, default_val) ==
    IF data.kind = "list" THEN [err |-> "TypeError", grid |-> g]
    ELSE IF data.kind = "iter"
    THEN IF data.items = <<>> THEN [err |-> "StopIteration", grid |-> g]
         ELSE IF g.height > 0 THEN [err |-> "TypeError", grid |-> g]
         ELSE [err |-> "none", grid |-> g]
    ELSE SetColFrom(g, c, data.items, default_val, 0)

RECURSIVE ArrayInitFrom(_, _, _)
\* The loop of NonogridArray.__init__ from row r on: a row of None is
\* appended and filled by set_row from the next value of
\* _infinite_generator(data, []).
ArrayInitFrom(g, data, r) ==
    IF r >= g.height THEN g
    ELSE LET row == IF r + 1 <= Len(data) THEN data[r + 1] ELSE <<>>
             appended == [g EXCEPT !.grid = Append(g.grid, Repeat(NoneCell, g.width))]
         IN  ArrayInitFrom(SetRow(appended, r, row, NoneCell).grid, data, r + 1)

\* NonogridArray(height, width, data, default_val=default_val)
NewNonogridArray(h, w, data, default_val) ==
    ArrayInitFrom([height |-> h, width |-> w, default_val |-> default_val, grid |-> <<>>],
                  data, 0)

\* NonogridArray(height, width, data): the default value is None.
NonogridArray(h, w, data) == NewNonogridArray(h, w, data, NoneCell)

\* Nonogrid.row(r) and Nonogrid.col(c), as lists.
GridRow(g, r) == [c \in 1..g.width |-> g.grid[r][c]]
GridCol(g, c) == [r \in 1..g.height |-> g.grid[r][c]]
\* Nonogrid.rows() and Nonogrid.cols()
GridRows(g) == [r \in 1..g.height |-> GridRow(g, r)]
GridCols(g) == [c \in 1..g.width |-> GridCol(g, c)]

RECURSIVE CountSat(_, _, _)
CountSat(clues, lines, i) ==
    IF i > Len(clues) THEN 0
    ELSE (IF SatisfiedBy(clues[i], lines[i]) THEN 1 ELSE 0) + CountSat(clues, lines, i + 1)

\* Nonogram._clue_sat_count: zip(strict=True) raises on a length mismatch.
ClueSatCount(clues, lines) ==
    IF Len(clues) # Len(lines) THEN Raised("ValueError") ELSE Ok(CountSat(clues, lines, 1))

SatisfiedCountRowsOnly(rs, cs, g) ==
    IF <<Len(rs), Len(cs)>> # <<g.height, g.width>> THEN Raised("ValueError")
    ELSE ClueSatCount(rs, GridRows(g))

RECURSIVE CountSatFit(_, _, _)
CountSatFit(clues, lines, i) ==
    IF i > Len(clues) \/ i > Len(lines) THEN 0
    ELSE (IF SatisfiedBy(clues[i], lines[i]) THEN 1 ELSE 0) + CountSatFit(clues, lines, i + 1)

SatisfiedCountFit(rs, cs, g) ==
    Ok(CountSatFit(rs, GridRows(g), 1) + CountSatFit(cs, GridCols(g), 1))

\* Nonogram.satisfied_count(grid), for the nonogram (rs, cs).
SatisfiedCount(rs, cs, g) ==
    IF <<Len(rs), Len(cs)>> # <<g.height, g.width>> THEN Raised("ValueError")
    ELSE LET row_clue_count == ClueSatCount(rs, GridRows(g))
             col_clue_count == ClueSatCount(cs, GridCols(g))
         IN  IF row_clue_count.err # "none" THEN row_clue_count
             ELSE IF col_clue_count.err # "none" THEN col_clue_count
             ELSE Ok(row_clue_count.val + col_clue_count.val)

GramSatisfiedByHeightOnly(rs, cs, g) ==
    LET n == SatisfiedCount(rs, cs, g)
    IN  IF n.err # "none" THEN n ELSE Ok(n.val = Len(rs))

\* Nonogram.satisfied_by(grid)
GramSatisfiedBy(rs, cs, g) ==
    LET n == SatisfiedCount(rs, cs, g)
    IN  IF n.err # "none" THEN n ELSE Ok(n.val = Len(rs) + Len(cs))

-----------------------------------------------------------------------------
(* solve.utils.ClueSolutions *)

RECURSIVE FallingProduct(_, _, _)
\* n * (n - 1) * ... over k factors, divided step by step: after the i-th
\* step the value is the number of i-subsets of an (n - k + i)-set.
FallingProduct(n, k, i) ==
    IF i = 0 THEN 1 ELSE (FallingProduct(n, k, i - 1) * (n - k + i)) \div i

\* math.comb(n, k): raises ValueError on a negative argument, is 0 for k > n.
MathComb(n, k) ==
    IF n < 0 \/ k < 0 THEN Raised("ValueError")
    ELSE IF k > n THEN Ok(0)
    ELSE Ok(FallingProduct(n, k, k))

ClueLenOffByOne(c, n) == MathComb(n + 2 - Sum(c), Len(c))

\* ClueSolutions.__len__ for ClueSolutions(c, n).
ClueLen(c, n) == MathComb(n + 1 - Sum(c), Len(c))

RECURSIVE GapsExpand(_, _, _)
\* The loop of _gaps_to_sol over zip(gaps, filled) from position i on.
GapsExpand(gaps, filled, i) ==
    IF i > Len(gaps) THEN <<>>
    ELSE Repeat(0, gaps[i]) \o Repeat(1, filled[i]) \o GapsExpand(gaps, filled, i + 1)

GapsToSolMirrored(c, gaps) ==
    LET sol == GapsExpand(gaps, c \o <<0>>, 1)
        cut == SubSeq(sol, 2, Len(sol) - 1)
    IN  [i \in 1..Len(cut) |-> cut[Len(cut) + 1 - i]]

\* ClueSolutions._gaps_to_sol: sol[1:-1] of the expanded gaps and runs.
GapsToSol(c, gaps) ==
    LET sol == GapsExpand(gaps, c \o <<0>>, 1)
    IN  SubSeq(sol, 2, Len(sol) - 1)

\* A generator of _iterator that has not been advanced yet.  indices are the
\* 0-based indices of itertools.combinations into its pool.
NewIter == [started |-> FALSE, indices |-> <<>>]

\* empty_count of _iterator, and the size of the pool range(1, empty_count).
EmptyCount(c, n) == n + 2 - Sum(c)
PoolSize(c, n) == IF EmptyCount(c, n) > 1 THEN EmptyCount(c, n) - 1 ELSE 0

\* itertools.combinations: the rightmost index that is not at its maximum
\* i + n - r (0 when there is none; i is 1-based here, the indices are not).
Pivot(indices, m) ==
    LET r == Len(indices)
        free == {i \in 1..r : indices[i] # (i - 1) + m - r}
    IN  IF free = {} THEN 0 ELSE CHOOSE i \in free : \A j \in free : j <= i

\* itertools.combinations: the indices after the step at pivot i.
Bump(indices, i) ==
    [j \in 1..Len(indices) |->
        IF j < i THEN indices[j] ELSE indices[i] + 1 + (j - i)]

\* The gap lengths _iterator derives from a combination of the pool:
\* pairwise differences of [0] + positions + [empty_count].
GapLengths(c, n, indices) ==
    LET positions == [j \in 1..Len(indices) |-> indices[j] + 1]
        ext == <<0>> \o positions \o <<EmptyCount(c, n)>>
    IN  [j \in 1..(Len(ext) - 1) |-> ext[j + 1] - ext[j]]

IterAdvanceSkipFirst(c, n, g) ==
    LET m == PoolSize(c, n)
        r == Len(c)
        first == [j \in 1..r |-> j - 1]
        cur == IF g.started THEN g.indices ELSE first
        i == Pivot(cur, m)
    IN  IF r > m \/ i = 0
        THEN [done |-> TRUE, it |-> [started |-> TRUE, indices |-> cur], sol |-> <<>>]
        ELSE [done |-> FALSE, it |-> [started |-> TRUE, indices |-> Bump(cur, i)],
              sol |-> GapsToSol(c, GapLengths(c, n, Bump(cur, i)))]

\* next() on a generator g of ClueSolutions(c, n)._iterator(): done when the
\* generator is exhausted, else the solution it yields and its new state.
IterAdvance(c, n, g) ==
    LET m == PoolSize(c, n)
        r == Len(c)
        first == [j \in 1..r |-> j - 1]
        i == Pivot(g.indices, m)
    IN  IF ~g.started
        THEN IF r > m
             THEN [done |-> TRUE, it |-> [started |-> TRUE, indices |-> <<>>], sol |-> <<>>]
             ELSE [done |-> FALSE, it |-> [started |-> TRUE, indices |-> first],
                   sol |-> GapsToSol(c, GapLengths(c, n, first))]
        ELSE IF r > m \/ i = 0
             THEN [done |-> TRUE, it |-> g, sol |-> <<>>]
             ELSE [done |-> FALSE, it |-> [started |-> TRUE, indices |-> Bump(g.indices, i)],
                   sol |-> GapsToSol(c, GapLengths(c, n, Bump(g.indices, i)))]

-----------------------------------------------------------------------------
(* solve.detsearch.ClueChooser *)

RECURSIVE NumCombsFrom(_, _, _, _)
\* The loop of _num_combs from clue i on, with the product so far; an
\* exception raised by len() leaves the loop.
NumCombsFrom(clue_lst, length, i, prod) ==
    IF i > Len(clue_lst) THEN Ok(prod)
    ELSE LET n == ClueLen(clue_lst[i], length)
         IN  IF n.err # "none" THEN n
             ELSE NumCombsFrom(clue_lst, length, i + 1, prod * n.val)

\* ClueChooser._num_combs(clue_lst, length)
NumCombs(clue_lst, length) == NumCombsFrom(clue_lst, length, 1, 1)

\* What ClueChooser.solve() does before _find_solution_rec's first loop step:
\* the outcome it ends with there, or "search" when the recursion starts.
CCEntry ==
    LET row_leaves == NumCombs(rows, Width)
        col_leaves == NumCombs(cols, Height)
    IN  IF row_leaves.err # "none" THEN row_leaves.err
        ELSE IF col_leaves.err # "none" THEN col_leaves.err
        ELSE IF 0 \in {row_leaves.val, col_leaves.val} THEN "DNE"
        ELSE IF Height = 0 THEN "IndexError"      \* row_sols[0] of an empty list
        ELSE "search"

CCSolveTransposing ==
    /\ pc = "start"
    /\ cc_searched' = (CCEntry \in {"IndexError", "search"})
    /\ IF CCEntry = "search"
       THEN /\ pc' = "cc"
            /\ frames' = <<NewIter>>
            /\ cc_result' = cc_result
            /\ rows' = cols
            /\ cols' = rows
       ELSE /\ pc' = "cc_done"
            /\ frames' = frames
            /\ cc_result' = Res(CCEntry, <<>>)
            /\ UNCHANGED <<rows, cols>>
    /\ grid_builder' = <<>>
    /\ collector' = <<>>
    /\ UNCHANGED <<collect, n_idx, maxim_num, maxim_list, n_result, clue_vars, obj_vars, run_vars>>

\* solve() up to the first call of _find_solution_rec.
CCSolve ==
    /\ pc = "start"
    /\ cc_searched' = (CCEntry \in {"IndexError", "search"})
    /\ IF CCEntry = "search"
       THEN /\ pc' = "cc"
            /\ frames' = <<NewIter>>
            /\ cc_result' = cc_result
       ELSE /\ pc' = "cc_done"
            /\ frames' = frames
            /\ cc_result' = Res(CCEntry, <<>>)
    /\ grid_builder' = <<>>
    /\ collector' = <<>>
    /\ UNCHANGED <<rows, cols, collect, n_idx, maxim_num, maxim_list, n_result, clue_vars, obj_vars, run_vars>>

\* The row the innermost call of _find_solution_rec is at (cur_idx + 1), and
\* what its loop's next step gets from the row's ClueSolutions generator.
CurIdx == Len(frames)
CCAdvance == IterAdvance(rows[CurIdx], Width, frames[CurIdx])

\* A loop step that is not at the last row: append the row and recurse.
CCDescend ==
    /\ pc = "cc"
    /\ ~CCAdvance.done
    /\ CurIdx # Height
    /\ grid_builder' = Append(grid_builder, CCAdvance.sol)
    /\ frames' = Append([frames EXCEPT ![CurIdx] = CCAdvance.it], NewIter)
    /\ UNCHANGED <<rows, cols, collect, pc, collector, cc_searched, cc_result,
                   n_idx, maxim_num, maxim_list, n_result, clue_vars, obj_vars, run_vars>>

CCLeafNoPop ==
    /\ pc = "cc"
    /\ ~CCAdvance.done
    /\ CurIdx = Height
    /\ LET built == Append(grid_builder, CCAdvance.sol)
           grid == NonogridArray(Height, Width, built)
           sat == GramSatisfiedBy(rows, cols, grid)
           found == sat.err = "none" /\ sat.val
           recorded == IF found THEN Append(collector, grid) ELSE collector
       IN  /\ collector' = recorded
           /\ frames' = [frames EXCEPT ![CurIdx] = CCAdvance.it]
           /\ IF sat.err # "none"
              THEN /\ pc' = "cc_done"
                   /\ cc_result' = Res(sat.err, <<>>)
                   /\ grid_builder' = built
              ELSE IF found /\ ~collect
              THEN /\ pc' = "cc_done"
                   /\ cc_result' = Res("grid", <<recorded[1]>>)
                   /\ grid_builder' = built
              ELSE /\ pc' = pc
                   /\ cc_result' = cc_result
                   /\ grid_builder' = built
    /\ UNCHANGED <<rows, cols, collect, cc_searched,
                   n_idx, maxim_num, maxim_list, n_result, clue_vars, obj_vars, run_vars>>

\* A loop step at the last row: append the row, build the grid and test it;
\* a satisfying grid is recorded and, unless collecting, ends the search
\* (_FoundSolution, caught by _find_solution, which returns collector[0]).
CCLeaf ==
    /\ pc = "cc"
    /\ ~CCAdvance.done
    /\ CurIdx = Height
    /\ LET built == Append(grid_builder, CCAdvance.sol)
           grid == NonogridArray(Height, Width, built)
           sat == GramSatisfiedBy(rows, cols, grid)
           found == sat.err = "none" /\ sat.val
           recorded == IF found THEN Append(collector, grid) ELSE collector
       IN  /\ collector' = recorded
           /\ frames' = [frames EXCEPT ![CurIdx] = CCAdvance.it]
           /\ IF sat.err # "none"
              THEN /\ pc' = "cc_done"
                   /\ cc_result' = Res(sat.err, <<>>)
                   /\ grid_builder' = built
              ELSE IF found /\ ~collect
              THEN /\ pc' = "cc_done"
                   /\ cc_result' = Res("grid", <<recorded[1]>>)
                   /\ grid_builder' = built
              ELSE /\ pc' = pc
                   /\ cc_result' = cc_result
                   /\ grid_builder' = Front(built)
    /\ UNCHANGED <<rows, cols, collect, cc_searched,
                   n_idx, maxim_num, maxim_list, n_result, clue_vars, obj_vars, run_vars>>

CCReturnUnchecked ==
    /\ pc = "cc"
    /\ CCAdvance.done
    /\ frames' = Front(frames)
    /\ IF CurIdx = 1
       THEN /\ pc' = "cc_done"
            /\ cc_result' = Res("list", collector)
            /\ grid_builder' = grid_builder
       ELSE /\ pc' = pc
            /\ cc_result' = cc_result
            /\ grid_builder' = Front(grid_builder)
    /\ UNCHANGED <<rows, cols, collect, collector, cc_searched,
                   n_idx, maxim_num, maxim_list, n_result, clue_vars, obj_vars, run_vars>>

\* The row's generator is exhausted: _find_solution_rec returns.  The caller
\* pops its row; the outermost return ends _find_solution with the
\* collector, which solve() turns into DNE when it is empty.
CCReturn ==
    /\ pc = "cc"
    /\ CCAdvance.done
    /\ frames' = Front(frames)
    /\ IF CurIdx = 1
       THEN /\ pc' = "cc_done"
            /\ cc_result' = IF collector = <<>> THEN Res("DNE", <<>>)
                            ELSE Res("list", collector)
            /\ grid_builder' = grid_builder
       ELSE /\ pc' = pc
            /\ cc_result' = cc_result
            /\ grid_builder' = Front(grid_builder)
    /\ UNCHANGED <<rows, cols, collect, collector, cc_searched,
                   n_idx, maxim_num, maxim_list, n_result, clue_vars, obj_vars, run_vars>>

-----------------------------------------------------------------------------
(* solve.detsearch.NaiveSolver *)

\* The number of grids _grid_iterator yields: product over height of the
\* product over width of [False, True].
NumGrids == (2 ^ Width) ^ Height

\* The k-th tuple (k from 0) of product([False, True], repeat=w).
RowData(k, w) == [j \in 1..w |-> (k \div (2 ^ (w - j))) % 2]

\* The k-th tuple (k from 0) of product(list(rows), repeat=h).
GridData(k, h, w) == [i \in 1..h |-> RowData((k \div ((2 ^ w) ^ (h - i))) % (2 ^ w), w)]

\* The k-th grid (k from 0) _grid_iterator yields.
NaiveGrid(k) == NonogridArray(Height, Width, GridData(k, Height, Width))

\* max_sat() is entered: maxim_num, maxim_list = 0, [].
NaiveStart ==
    /\ pc = "cc_done"
    /\ pc' = "naive"
    /\ n_idx' = 0
    /\ maxim_num' = 0
    /\ maxim_list' = <<>>
    /\ UNCHANGED <<rows, cols, collect, frames, grid_builder, collector,
                   cc_searched, cc_result, n_result, clue_vars, obj_vars, run_vars>>

NaiveScanKeepFirst ==
    /\ pc = "naive"
    /\ n_idx < NumGrids
    /\ LET grid == NaiveGrid(n_idx)
           clue_sat == SatisfiedCount(rows, cols, grid)
       IN  IF clue_sat.err # "none"
           THEN /\ pc' = "done"
                /\ n_result' = Res(clue_sat.err, <<>>)
                /\ UNCHANGED <<n_idx, maxim_num, maxim_list>>
           ELSE /\ n_idx' = n_idx + 1
                /\ maxim_num' = IF clue_sat.val > maxim_num THEN clue_sat.val ELSE maxim_num
                /\ maxim_list' = IF clue_sat.val > maxim_num \/ maxim_list = <<>>
                                 THEN <<grid>> ELSE maxim_list
                /\ UNCHANGED <<pc, n_result>>
    /\ UNCHANGED <<rows, cols, collect, frames, grid_builder, collector,
                   cc_searched, cc_result, clue_vars, obj_vars, run_vars>>

\* One step of max_sat's loop over _grid_iterator().
NaiveScan ==
    /\ pc = "naive"
    /\ n_idx < NumGrids
    /\ LET grid == NaiveGrid(n_idx)
           clue_sat == SatisfiedCount(rows, cols, grid)
       IN  IF clue_sat.err # "none"
           THEN /\ pc' = "done"
                /\ n_result' = Res(clue_sat.err, <<>>)
                /\ UNCHANGED <<n_idx, maxim_num, maxim_list>>
           ELSE /\ n_idx' = n_idx + 1
                /\ maxim_num' = IF clue_sat.val > maxim_num THEN clue_sat.val ELSE maxim_num
                /\ maxim_list' = IF clue_sat.val = maxim_num THEN Append(maxim_list, grid)
                                 ELSE IF clue_sat.val > maxim_num THEN <<grid>>
                                 ELSE maxim_list
                /\ UNCHANGED <<pc, n_result>>
    /\ UNCHANGED <<rows, cols, collect, frames, grid_builder, collector,
                   cc_searched, cc_result, clue_vars, obj_vars, run_vars>>

NaiveResultRowsOnly(num, lst, coll) ==
    IF num = Len(rows)
    THEN IF coll THEN Res("list", lst)
         ELSE IF lst # <<>> THEN Res("grid", <<lst[1]>>) ELSE Res("DNE", <<>>)
    ELSE Res("DNE", <<>>)

\* What max_sat returns once its loop is over: the pair of maxim_num and
\* the list, or its first element when collect is false.
MaxSat(num, lst, coll) ==
    [num |-> num,
     result |-> IF coll THEN Res("list", lst)
                ELSE IF lst # <<>> THEN Res("grid", <<lst[1]>>) ELSE Res("DNE", <<>>)]

\* What NaiveSolver.solve() returns from max_sat's (maxim_num, maxim_list).
NaiveResult(num, lst, coll) ==
    IF MaxSat(num, lst, coll).num = Len(rows) + Len(cols)
    THEN MaxSat(num, lst, coll).result
    ELSE Res("DNE", <<>>)

\* The loop is over: max_sat returns and solve() compares with the number of clues.
NaiveReturn ==
    /\ pc = "naive"
    /\ n_idx = NumGrids
    /\ pc' = "done"
    /\ n_result' = NaiveResult(maxim_num, maxim_list, collect)
    /\ UNCHANGED <<rows, cols, collect, frames, grid_builder, collector,
                   cc_searched, cc_result, n_idx, maxim_num, maxim_list, clue_vars, obj_vars, run_vars>>

-----------------------------------------------------------------------------
(* solve.abc.NonogramBounder and solve.abc.NonogramSolver *)

\* NonogramBounder.solve, from what max_sat returned and nonogram.num_clues.
BounderSolve(n_sat, result, num_clues) ==
    IF n_sat = num_clues THEN result ELSE Res("INC", <<>>)

SolverSolveKeepsInc(n_sat, result, num_clues) == BounderSolve(n_sat, result, num_clues)

\* NonogramSolver.solve: super().solve() with INC turned into DNE.
SolverSolve(n_sat, result, num_clues) ==
    IF BounderSolve(n_sat, result, num_clues) = Res("INC", <<>>)
    THEN Res("DNE", <<>>)
    ELSE BounderSolve(n_sat, result, num_clues)

-----------------------------------------------------------------------------
(* core.Nonogram, the legacy module *)

\* Nonogram._rows_satisfied(row_clues, row_data, bool_map) with bool_map =
\* bool. diff is the value of the comparison len(row_data) > len(row_clues),
\* a bool, so [Nonoclue()] * diff holds one empty clue or none. The clues
\* and their satisfied_by are those of gram.py, copied.
RowsSatisfied(row_clues, row_data) ==
    LET diff == IF Len(row_data) > Len(row_clues) THEN 1 ELSE 0
        clues == IF diff > 0 THEN row_clues \o Repeat(<<>>, diff) ELSE row_clues
    IN  \A i \in 1..Len(clues) :
            SatisfiedBy(clues[i], IF i <= Len(row_data) THEN row_data[i] ELSE <<>>)

\* Nonogram.satisfied_by(solution) of the nonogram (rs, cs), row-major, on a
\* rectangular array with at least one row.
LegacySatisfiedBy(rs, cs, solution) ==
    LET col_data == [i \in 1..Len(solution[1]) |->
                        [j \in 1..Len(solution) |-> solution[j][i]]]
    IN  RowsSatisfied(rs, solution) /\ RowsSatisfied(cs, col_data)

-----------------------------------------------------------------------------
(* solve.detsearch: a second call. *)

\* Both solvers have returned and solve() is called on each of them again,
\* with the same collect: a solver object keeps its nonogram and nothing
\* else, the lists of a call are new in every call.
SolveAgain ==
    /\ pc = "done"
    /\ earlier = <<>>
    /\ earlier' = <<<<cc_result, n_result>>>>
    /\ pc' = "start"
    /\ frames' = <<>>
    /\ grid_builder' = <<>>
    /\ collector' = <<>>
    /\ cc_searched' = FALSE
    /\ cc_result' = NoResult
    /\ n_idx' = 0
    /\ maxim_num' = 0
    /\ maxim_list' = <<>>
    /\ n_result' = NoResult
    /\ UNCHANGED <<rows, cols, collect, clue_vars, obj_vars, gens, gen_yielded>>

-----------------------------------------------------------------------------
(* The inputs the specifications draw from. *)

\* The positions where a maximal run of truthy values starts, and where the
\* run starting at i ends.
RunStarts(s) == {i \in 1..Len(s) : Bool(s[i]) = 1 /\ (i = 1 \/ Bool(s[i - 1]) = 0)}
RunEnd(s, i) == CHOOSE j \in i..Len(s) :
                    /\ \A k \in i..j : Bool(s[k]) = 1
                    /\ (j = Len(s) \/ Bool(s[j + 1]) = 0)

RECURSIVE RunsFrom(_, _)
RunsFrom(s, starts) ==
    IF starts = {} THEN <<>>
    ELSE LET i == CHOOSE x \in starts : \A y \in starts : x <= y
         IN  <<RunEnd(s, i) - i + 1>> \o RunsFrom(s, starts \ {i})

\* The lengths of the maximal runs of truthy values of s, left to right.
RunLengths(s) == RunsFrom(s, RunStarts(s))

RECURSIVE ClueSet(_)
\* The clues (lists of positive run lengths) whose runs, one empty cell
\* apart, fit in span cells; the empty clue is one of them.
ClueSet(span) ==
    IF span <= 0 THEN {<<>>}
    ELSE {<<>>} \cup UNION {{<<x>> \o c : c \in ClueSet(span - x - 1)} : x \in 1..span}

\* The boolean lists of length n, and the lists of at most n values of vals.
BoolSeqs(n) == [1..n -> {0, 1}]
SeqsUpTo(vals, n) == UNION {[1..k -> vals] : k \in 0..n}

\* The clue lists given to Nonogram(rows, cols): the row and column clues
\* of an h x w grid of booleans, with at most one of them replaced by any
\* clue of ClueSet(MaxSpan).
PuzzleInputs ==
    UNION {UNION {
        LET rs == [r \in 1..h |-> RunLengths(g[r])]
            cs == [c \in 1..w |-> RunLengths([r \in 1..h |-> g[r][c]])]
        IN  {<<rs, cs>>}
            \cup {<<[rs EXCEPT ![r] = c], cs>> : r \in 1..h, c \in ClueSet(MaxSpan)}
            \cup {<<rs, [cs EXCEPT ![k] = c]>> : k \in 1..w, c \in ClueSet(MaxSpan)}
        : g \in [1..h -> [1..w -> {0, 1}]]}
      : <<h, w>> \in {d \in (0..MaxCells) \X (0..MaxCells) : d[1] * d[2] <= MaxCells}}

RECURSIVE ArgLists(_), ArgItems(_)
\* The argument lists made of exactly n numbers and iterables, and the
\* single arguments made of exactly n of them.
ArgLists(n) ==
    IF n = 0 THEN {<<>>}
    ELSE UNION {{<<t>> \o f : t \in ArgItems(j), f \in ArgLists(n - j)} : j \in 1..n}
ArgItems(n) ==
    (IF n = 1 THEN {Num(v) : v \in (-1)..MaxRun} ELSE {})
    \cup {Iterable(f) : f \in ArgLists(n - 1)}

\* The data given to NonogridArray: row r (from 1) has lens[r] elements, the
\* one at position c (from 1) a value met nowhere else in the data and
\* different from every default value.
ShapedData(lens) == [r \in 1..Len(lens) |-> [c \in 1..lens[r] |-> r * (MaxSide + 2) + c]]
DataShapes == SeqsUpTo(0..(MaxSide + 1), MaxSide + 1)
DefaultValues == {NoneCell, 0, 1}
IndexRange == (-(MaxSide + 2))..(MaxSide + 2)

\* The clues given to Nonogram(rows, cols) before normalisation: lists of
\* non-negative numbers, two of them with no run.
RawClues == {<<>>, <<0>>, <<1>>, <<0, 2>>}

\* The dimensions (height, width) of the grids with at most MaxCells cells.
GridDims == {d \in (0..MaxCells) \X (0..MaxCells) : d[1] * d[2] <= MaxCells}

-----------------------------------------------------------------------------
(* The specifications. *)

ClueIdle ==
    /\ clue = <<>>
    /\ target_length = 0
    /\ sequence = <<>>
    /\ sat_result = FALSE
    /\ len_result = Ok(0)
    /\ it = NewIter
    /\ yielded = <<>>

SolverIdle ==
    /\ rows = <<>>
    /\ cols = <<>>
    /\ collect = FALSE
    /\ frames = <<>>
    /\ grid_builder = <<>>
    /\ collector = <<>>
    /\ cc_searched = FALSE
    /\ cc_result = NoResult
    /\ n_idx = 0
    /\ maxim_num = 0
    /\ maxim_list = <<>>
    /\ n_result = NoResult

RunIdle ==
    /\ earlier = <<>>
    /\ gens = <<>>
    /\ gen_yielded = <<>>

ObjIdle ==
    /\ args = <<>>
    /\ new_clue = Ok(<<>>)
    /\ raw_rows = <<>>
    /\ raw_cols = <<>>
    /\ array = NonogridArray(0, 0, <<>>)
    /\ call = [name |-> "none"]
    /\ call_result = Ok(0)

\* A Nonogram is constructed (Nonogram.__init__) and a solver of each kind
\* is about to be asked to solve it.
Init ==
    /\ \E p \in PuzzleInputs :
          /\ rows = InitClues(p[1])
          /\ cols = InitClues(p[2])
    /\ collect \in BOOLEAN
    /\ pc = "start"
    /\ frames = <<>>
    /\ grid_builder = <<>>
    /\ collector = <<>>
    /\ cc_searched = FALSE
    /\ cc_result = NoResult
    /\ n_idx = 0
    /\ maxim_num = 0
    /\ maxim_list = <<>>
    /\ n_result = NoResult
    /\ ClueIdle
    /\ ObjIdle
    /\ RunIdle

Next ==
    \/ CCSolve
    \/ CCDescend
    \/ CCLeaf
    \/ CCReturn
    \/ NaiveStart
    \/ NaiveScan
    \/ NaiveReturn
    \/ SolveAgain

Spec == Init /\ [][Next]_vars

-----------------------------------------------------------------------------
(* One clue: Nonoclue.satisfied_by and ClueSolutions. *)

\* The values a cell may hold: None, False, True and a truthy non-boolean.
CellValues == {NoneCell, 0, 1, 2}

\* clue.satisfied_by(sequence) is evaluated.
CallSatisfiedBy ==
    /\ pc = "sat"
    /\ pc' = "checked"
    /\ sat_result' = SatisfiedBy(clue, sequence)
    /\ UNCHANGED <<rows, cols, collect, frames, grid_builder, collector, cc_searched,
                   cc_result, n_idx, maxim_num, maxim_list, n_result, obj_vars,
                   clue, target_length, sequence, len_result, it, yielded, run_vars>>

\* len(ClueSolutions(clue, target_length)) is evaluated.
CallLen ==
    /\ pc = "clue"
    /\ pc' = "len_called"
    /\ len_result' = ClueLen(clue, target_length)
    /\ UNCHANGED <<rows, cols, collect, frames, grid_builder, collector, cc_searched,
                   cc_result, n_idx, maxim_num, maxim_list, n_result, obj_vars,
                   clue, target_length, sequence, sat_result, it, yielded, run_vars>>

\* iter(ClueSolutions(clue, target_length)): a fresh generator.
IterStart ==
    /\ pc = "len_called"
    /\ pc' = "iterating"
    /\ it' = NewIter
    /\ yielded' = <<>>
    /\ UNCHANGED <<rows, cols, collect, frames, grid_builder, collector, cc_searched,
                   cc_result, n_idx, maxim_num, maxim_list, n_result, obj_vars,
                   clue, target_length, sequence, sat_result, len_result, run_vars>>

\* next() on the generator: it yields a solution or is exhausted.
IterNext ==
    /\ pc = "iterating"
    /\ LET adv == IterAdvance(clue, target_length, it)
       IN  /\ it' = adv.it
           /\ IF adv.done
              THEN pc' = "exhausted" /\ yielded' = yielded
              ELSE pc' = pc /\ yielded' = Append(yielded, adv.sol)
    /\ UNCHANGED <<rows, cols, collect, frames, grid_builder, collector, cc_searched,
                   cc_result, n_idx, maxim_num, maxim_list, n_result, obj_vars,
                   clue, target_length, sequence, sat_result, len_result, run_vars>>

InitSat ==
    /\ SolverIdle
    /\ ObjIdle
    /\ pc = "sat"
    /\ clue \in ClueSet(SatSpan)
    /\ sequence \in SeqsUpTo(CellValues, MaxSeqLen)
    /\ target_length = 0
    /\ sat_result = FALSE
    /\ len_result = Ok(0)
    /\ it = NewIter
    /\ yielded = <<>>
    /\ RunIdle

NextSat == CallSatisfiedBy

SpecSat == InitSat /\ [][NextSat]_vars

InitClue ==
    /\ SolverIdle
    /\ ObjIdle
    /\ pc = "clue"
    /\ clue \in ClueSet(ClueSpan)
    /\ target_length \in 0..MaxTarget
    /\ sequence = <<>>
    /\ sat_result = FALSE
    /\ len_result = Ok(0)
    /\ it = NewIter
    /\ yielded = <<>>
    /\ RunIdle

NextClue ==
    \/ CallLen
    \/ IterStart
    \/ IterNext

SpecClue == InitClue /\ [][NextClue]_vars

InitLen ==
    /\ SolverIdle
    /\ ObjIdle
    /\ pc = "clue"
    /\ clue \in ClueSet(LenSpan)
    /\ target_length \in 0..LenTarget
    /\ sequence = <<>>
    /\ sat_result = FALSE
    /\ len_result = Ok(0)
    /\ it = NewIter
    /\ yielded = <<>>
    /\ RunIdle

NextLen == CallLen

SpecLen == InitLen /\ [][NextLen]_vars

-----------------------------------------------------------------------------
(* Nonoclue(args). *)

\* Nonoclue.__init__: the clue is built, or the constructor raises.
NewNonoclue ==
    /\ pc = "clue_args"
    /\ pc' = "clue_built"
    /\ new_clue' = Nonoclue(args)
    /\ UNCHANGED <<rows, cols, collect, frames, grid_builder, collector, cc_searched,
                   cc_result, n_idx, maxim_num, maxim_list, n_result, clue_vars,
                   args, raw_rows, raw_cols, array, call, call_result, run_vars>>

InitNonoclue ==
    /\ SolverIdle
    /\ ClueIdle
    /\ pc = "clue_args"
    /\ args \in UNION {ArgLists(n) : n \in 0..MaxNodes}
    /\ new_clue = Ok(<<>>)
    /\ raw_rows = <<>>
    /\ raw_cols = <<>>
    /\ array = NonogridArray(0, 0, <<>>)
    /\ call = [name |-> "none"]
    /\ call_result = Ok(0)
    /\ RunIdle

NextNonoclue == NewNonoclue

SpecNonoclue == InitNonoclue /\ [][NextNonoclue]_vars

-----------------------------------------------------------------------------
(* NonogridArray: construction and indexing. *)

\* NonogridArray.__init__ with the arguments held in call.
NewArray ==
    /\ pc = "array_args"
    /\ pc' = "array_built"
    /\ array' = NewNonogridArray(call.height, call.width, call.data, call.default_val)
    /\ UNCHANGED <<rows, cols, collect, frames, grid_builder, collector, cc_searched,
                   cc_result, n_idx, maxim_num, maxim_list, n_result, clue_vars,
                   args, new_clue, raw_rows, raw_cols, call, call_result, run_vars>>

InitArray ==
    /\ SolverIdle
    /\ ClueIdle
    /\ pc = "array_args"
    /\ args = <<>>
    /\ new_clue = Ok(<<>>)
    /\ raw_rows = <<>>
    /\ raw_cols = <<>>
    /\ array = NonogridArray(0, 0, <<>>)
    /\ \E h \in 0..MaxSide, w \in 0..MaxSide, lens \in DataShapes, d \in DefaultValues :
          call = [name |-> "NonogridArray", height |-> h, width |-> w,
                  data |-> ShapedData(lens), default_val |-> d]
    /\ call_result = Ok(0)
    /\ RunIdle

NextArray == NewArray

SpecArray == InitArray /\ [][NextArray]_vars

\* array[r, c] is read.
CallGetItem ==
    /\ pc = "index_args"
    /\ pc' = "index_done"
    /\ \E r \in IndexRange, c \in IndexRange :
          /\ call' = [name |-> "getitem", r |-> r, c |-> c, val |-> NoneCell, before |-> array]
          /\ call_result' = GetItem(array, r, c)
    /\ UNCHANGED <<rows, cols, collect, frames, grid_builder, collector, cc_searched,
                   cc_result, n_idx, maxim_num, maxim_list, n_result, clue_vars,
                   args, new_clue, raw_rows, raw_cols, array, run_vars>>

\* array[r, c] = v is executed.
CallSetItem ==
    /\ pc = "index_args"
    /\ pc' = "index_done"
    /\ \E r \in IndexRange, c \in IndexRange, v \in {0, 1} :
          LET set == SetItem(array, r, c, v)
          IN  /\ call' = [name |-> "setitem", r |-> r, c |-> c, val |-> v, before |-> array]
              /\ array' = set.grid
              /\ call_result' = IF set.err = "none" THEN Ok(NoneCell) ELSE Raised(set.err)
    /\ UNCHANGED <<rows, cols, collect, frames, grid_builder, collector, cc_searched,
                   cc_result, n_idx, maxim_num, maxim_list, n_result, clue_vars,
                   args, new_clue, raw_rows, raw_cols, run_vars>>

\* A grid of every size up to MaxSide x MaxSide, each cell with its own value.
InitIndex ==
    /\ SolverIdle
    /\ ClueIdle
    /\ pc = "index_args"
    /\ args = <<>>
    /\ new_clue = Ok(<<>>)
    /\ raw_rows = <<>>
    /\ raw_cols = <<>>
    /\ \E h \in 0..MaxSide, w \in 0..MaxSide :
          array = NonogridArray(h, w, ShapedData([r \in 1..h |-> w]))
    /\ call = [name |-> "none"]
    /\ call_result = Ok(0)
    /\ RunIdle

NextIndex ==
    \/ CallGetItem
    \/ CallSetItem

SpecIndex == InitIndex /\ [][NextIndex]_vars

-----------------------------------------------------------------------------
(* Nonogram(rows, cols). *)

\* Nonogram.__init__: both clue lists go through _init_clues.
NewNonogram ==
    /\ pc = "gram_args"
    /\ pc' = "gram_built"
    /\ rows' = InitClues(raw_rows)
    /\ cols' = InitClues(raw_cols)
    /\ UNCHANGED <<collect, frames, grid_builder, collector, cc_searched, cc_result,
                   n_idx, maxim_num, maxim_list, n_result, clue_vars, obj_vars, run_vars>>

InitGram ==
    /\ SolverIdle
    /\ ClueIdle
    /\ pc = "gram_args"
    /\ args = <<>>
    /\ new_clue = Ok(<<>>)
    /\ raw_rows \in SeqsUpTo(RawClues, MaxRawLen)
    /\ raw_cols \in SeqsUpTo(RawClues, MaxRawLen)
    /\ array = NonogridArray(0, 0, <<>>)
    /\ call = [name |-> "none"]
    /\ call_result = Ok(0)
    /\ RunIdle

NextGram == NewNonogram

SpecGram == InitGram /\ [][NextGram]_vars

-----------------------------------------------------------------------------
(* Nonogram.satisfied_count and Nonogram.satisfied_by on a grid. *)

\* puzzle.satisfied_count(array) is evaluated.
CallSatisfiedCount ==
    /\ pc = "count_args"
    /\ pc' = "counted"
    /\ call' = [name |-> "satisfied_count"]
    /\ call_result' = SatisfiedCount(rows, cols, array)
    /\ UNCHANGED <<rows, cols, collect, frames, grid_builder, collector, cc_searched,
                   cc_result, n_idx, maxim_num, maxim_list, n_result, clue_vars,
                   args, new_clue, raw_rows, raw_cols, array, run_vars>>

\* puzzle.satisfied_by(array) is evaluated.
CallGramSatisfiedBy ==
    /\ pc = "count_args"
    /\ pc' = "by_checked"
    /\ call' = [name |-> "satisfied_by"]
    /\ call_result' = GramSatisfiedBy(rows, cols, array)
    /\ UNCHANGED <<rows, cols, collect, frames, grid_builder, collector, cc_searched,
                   cc_result, n_idx, maxim_num, maxim_list, n_result, clue_vars,
                   args, new_clue, raw_rows, raw_cols, array, run_vars>>

\* A puzzle and a grid: every boolean grid of the puzzle's dimensions, and
\* the all-False and the all-True grid of every other dimensions.
InitCount ==
    /\ \E p \in PuzzleInputs :
          /\ rows = InitClues(p[1])
          /\ cols = InitClues(p[2])
    /\ \E dims \in GridDims :
          \E data \in [1..dims[1] -> [1..dims[2] -> {0, 1}]] :
              /\ \/ dims = <<Len(rows), Len(cols)>>
                 \/ \E v \in {0, 1} : \A r \in 1..dims[1] : \A c \in 1..dims[2] : data[r][c] = v
              /\ array = NonogridArray(dims[1], dims[2], data)
    /\ pc = "count_args"
    /\ collect = FALSE
    /\ frames = <<>>
    /\ grid_builder = <<>>
    /\ collector = <<>>
    /\ cc_searched = FALSE
    /\ cc_result = NoResult
    /\ n_idx = 0
    /\ maxim_num = 0
    /\ maxim_list = <<>>
    /\ n_result = NoResult
    /\ ClueIdle
    /\ args = <<>>
    /\ new_clue = Ok(<<>>)
    /\ raw_rows = <<>>
    /\ raw_cols = <<>>
    /\ call = [name |-> "none"]
    /\ call_result = Ok(0)
    /\ RunIdle

NextCount ==
    \/ CallSatisfiedCount
    \/ CallGramSatisfiedBy

SpecCount == InitCount /\ [][NextCount]_vars

-----------------------------------------------------------------------------
(* Several iterations of one ClueSolutions object. *)

StartIterationShared ==
    /\ pc = "restart"
    /\ Len(gens) < RestartIters
    /\ gens' = Append(gens, IF gens = <<>> THEN [it |-> NewIter, done |-> FALSE]
                            ELSE gens[Len(gens)])
    /\ gen_yielded' = Append(gen_yielded, <<>>)
    /\ UNCHANGED <<solver_vars, clue_vars, obj_vars, earlier>>

\* iter(solutions): __iter__ returns a new generator self._iterator(), with
\* a combinations object of its own.
StartIteration ==
    /\ pc = "restart"
    /\ Len(gens) < RestartIters
    /\ gens' = Append(gens, [it |-> NewIter, done |-> FALSE])
    /\ gen_yielded' = Append(gen_yielded, <<>>)
    /\ UNCHANGED <<solver_vars, clue_vars, obj_vars, earlier>>

\* next() on one of the generators that are not exhausted yet.
AdvanceIteration ==
    /\ pc = "restart"
    /\ \E k \in 1..Len(gens) :
          /\ ~gens[k].done
          /\ LET adv == IterAdvance(clue, target_length, gens[k].it)
             IN  /\ gens' = [gens EXCEPT ![k] = [it |-> adv.it, done |-> adv.done]]
                 /\ gen_yielded' =
                        IF adv.done THEN gen_yielded
                        ELSE [gen_yielded EXCEPT ![k] = Append(@, adv.sol)]
    /\ UNCHANGED <<solver_vars, clue_vars, obj_vars, earlier>>

InitRestart ==
    /\ SolverIdle
    /\ ObjIdle
    /\ pc = "restart"
    /\ clue \in ClueSet(RestartSpan)
    /\ target_length \in 0..RestartTarget
    /\ sequence = <<>>
    /\ sat_result = FALSE
    /\ len_result = Ok(0)
    /\ it = NewIter
    /\ yielded = <<>>
    /\ RunIdle

NextRestart ==
    \/ StartIteration
    \/ AdvanceIteration

SpecRestart == InitRestart /\ [][NextRestart]_vars

-----------------------------------------------------------------------------
(* Nonogrid.set_row and Nonogrid.set_col on a constructed grid. *)

\* The k-th value handed to set_row or set_col: none of them is a value of
\* ShapedData or a default value.
FillValue(k) == (MaxSide + 2) * (MaxSide + 2) + k
FillLists == {[k \in 1..n |-> FillValue(k)] : n \in 0..(MaxSide + 1)}

\* array.set_row(r, data, default_val) is executed; data is a list or an
\* iterator over it.
CallSetRow ==
    /\ pc = "fill_args"
    /\ pc' = "filled"
    /\ \E r \in IndexRange, items \in FillLists, kind \in {"list", "iter"},
          d \in DefaultValues :
          LET set == SetRow(array, r, items, d)
          IN  /\ call' = [name |-> "set_row", idx |-> r,
                          data |-> [kind |-> kind, items |-> items],
                          default_val |-> d, before |-> array]
              /\ array' = set.grid
              /\ call_result' = IF set.err = "none" THEN Ok(NoneCell) ELSE Raised(set.err)
    /\ UNCHANGED <<rows, cols, collect, frames, grid_builder, collector, cc_searched,
                   cc_result, n_idx, maxim_num, maxim_list, n_result, clue_vars,
                   args, new_clue, raw_rows, raw_cols, run_vars>>

\* array.set_col(c, data, default_val) is executed.
CallSetCol ==
    /\ pc = "fill_args"
    /\ pc' = "filled"
    /\ \E c \in IndexRange, items \in FillLists, kind \in {"list", "iter", "nested"},
          d \in DefaultValues :
          LET data == [kind |-> kind, items |-> items]
              set == SetCol(array, c, data, d)
          IN  /\ call' = [name |-> "set_col", idx |-> c, data |-> data,
                          default_val |-> d, before |-> array]
              /\ array' = set.grid
              /\ call_result' = IF set.err = "none" THEN Ok(NoneCell) ELSE Raised(set.err)
    /\ UNCHANGED <<rows, cols, collect, frames, grid_builder, collector, cc_searched,
                   cc_result, n_idx, maxim_num, maxim_list, n_result, clue_vars,
                   args, new_clue, raw_rows, raw_cols, run_vars>>

\* A grid of every size up to MaxSide x MaxSide and every constructor
\* default, each cell with its own value.
InitFill ==
    /\ SolverIdle
    /\ ClueIdle
    /\ pc = "fill_args"
    /\ args = <<>>
    /\ new_clue = Ok(<<>>)
    /\ raw_rows = <<>>
    /\ raw_cols = <<>>
    /\ \E h \in 0..MaxSide, w \in 0..MaxSide, d \in DefaultValues :
          array = NewNonogridArray(h, w, ShapedData([r \in 1..h |-> w]), d)
    /\ call = [name |-> "none"]
    /\ call_result = Ok(0)
    /\ RunIdle

NextFill ==
    \/ CallSetRow
    \/ CallSetCol

SpecFill == InitFill /\ [][NextFill]_vars

-----------------------------------------------------------------------------
(* solve() as a subclass inherits it from NonogramBounder or NonogramSolver. *)

\* What max_sat may hand back as its second component: a grid, a list of
\* grids, or SolveFailure.DNE as NaiveSolver.max_sat does for an empty list.
MaxSatResults ==
    LET g0 == NonogridArray(1, 1, <<<<0>>>>)
        g1 == NonogridArray(1, 1, <<<<1>>>>)
    IN  {Res("grid", <<g0>>), Res("list", <<>>), Res("list", <<g1>>),
         Res("list", <<g0, g1>>), Res("DNE", <<>>)}

\* solve() of a NonogramBounder subclass that keeps the inherited method.
CallBounderSolve ==
    /\ pc = "abc_args"
    /\ pc' = "abc_done"
    /\ call' = [call EXCEPT !.name = "NonogramBounder.solve",
                            !.returned = BounderSolve(call.n_sat, call.result, call.num_clues)]
    /\ UNCHANGED <<rows, cols, collect, frames, grid_builder, collector, cc_searched,
                   cc_result, n_idx, maxim_num, maxim_list, n_result, clue_vars,
                   args, new_clue, raw_rows, raw_cols, array, call_result, run_vars>>

\* solve() of a NonogramSolver subclass that keeps the inherited method.
CallSolverSolve ==
    /\ pc = "abc_args"
    /\ pc' = "abc_done"
    /\ call' = [call EXCEPT !.name = "NonogramSolver.solve",
                            !.returned = SolverSolve(call.n_sat, call.result, call.num_clues)]
    /\ UNCHANGED <<rows, cols, collect, frames, grid_builder, collector, cc_searched,
                   cc_result, n_idx, maxim_num, maxim_list, n_result, clue_vars,
                   args, new_clue, raw_rows, raw_cols, array, call_result, run_vars>>

\* max_sat has counted n_sat satisfied clues out of num_clues.
InitAbc ==
    /\ SolverIdle
    /\ ClueIdle
    /\ RunIdle
    /\ pc = "abc_args"
    /\ args = <<>>
    /\ new_clue = Ok(<<>>)
    /\ raw_rows = <<>>
    /\ raw_cols = <<>>
    /\ array = NonogridArray(0, 0, <<>>)
    /\ \E num_clues \in 0..AbcClues, n_sat \in 0..AbcClues, result \in MaxSatResults :
          /\ n_sat <= num_clues
          /\ call = [name |-> "max_sat", n_sat |-> n_sat, result |-> result,
                     num_clues |-> num_clues, returned |-> NoResult]
    /\ call_result = Ok(0)

NextAbc ==
    \/ CallBounderSolve
    \/ CallSolverSolve

SpecAbc == InitAbc /\ [][NextAbc]_vars

-----------------------------------------------------------------------------
(* The legacy Nonogram.satisfied_by on an array of squares. *)

\* The rectangular boolean arrays with at least one row.
LegacySolutions ==
    UNION {[1..h -> [1..w -> {0, 1}]] :
           <<h, w>> \in {d \in (1..LegacyCells) \X (0..LegacyCells) :
                            d[1] * d[2] <= LegacyCells}}

\* nonogram.satisfied_by(solution) is evaluated.
CallLegacySatisfiedBy ==
    /\ pc = "legacy_args"
    /\ pc' = "legacy_done"
    /\ \E solution \in LegacySolutions :
          /\ call' = [name |-> "satisfied_by", solution |-> solution]
          /\ sat_result' = LegacySatisfiedBy(rows, cols, solution)
    /\ UNCHANGED <<rows, cols, collect, frames, grid_builder, collector, cc_searched,
                   cc_result, n_idx, maxim_num, maxim_list, n_result,
                   clue, target_length, sequence, len_result, it, yielded,
                   args, new_clue, raw_rows, raw_cols, array, call_result, run_vars>>

\* A legacy Nonogram is constructed.
InitLegacy ==
    /\ \E rs, cs \in SeqsUpTo(ClueSet(LegacySpan), LegacyLines) :
          /\ rows = InitClues(rs)
          /\ cols = InitClues(cs)
    /\ collect = FALSE
    /\ pc = "legacy_args"
    /\ frames = <<>>
    /\ grid_builder = <<>>
    /\ collector = <<>>
    /\ cc_searched = FALSE
    /\ cc_result = NoResult
    /\ n_idx = 0
    /\ maxim_num = 0
    /\ maxim_list = <<>>
    /\ n_result = NoResult
    /\ ClueIdle
    /\ ObjIdle
    /\ RunIdle

NextLegacy == CallLegacySatisfiedBy

SpecLegacy == InitLegacy /\ [][NextLegacy]_vars

-----------------------------------------------------------------------------
(* What the claims speak of, stated without the code's own operators. *)

\* The boolean grids of the puzzle's dimensions, as lists of rows.
AllGridData == [1..Height -> [1..Width -> {0, 1}]]

\* Row r and column c of grid data d match their clues.
RowMatches(d, r) == RunLengths(d[r]) = rows[r]
ColMatches(d, c) == RunLengths([r \in 1..Height |-> d[r][c]]) = cols[c]

\* d satisfies the puzzle: every row and every column matches its clue.
LineSolves(d) ==
    /\ \A r \in 1..Height : RowMatches(d, r)
    /\ \A c \in 1..Width : ColMatches(d, c)

\* The number of clues d satisfies, and the most any grid satisfies.
LineCount(d) == Cardinality({r \in 1..Height : RowMatches(d, r)})
                + Cardinality({c \in 1..Width : ColMatches(d, c)})
BestCount == CHOOSE m \in 0..NumClues :
                /\ \E d \in AllGridData : LineCount(d) = m
                /\ \A d \in AllGridData : LineCount(d) <= m

Solvable == \E d \in AllGridData : LineSolves(d)

\* The boolean lists of length n whose runs are exactly c.
LineSolutions(c, n) == {s \in BoolSeqs(n) : RunLengths(s) = c}

SomeLineUnfillable ==
    \/ \E r \in 1..Height : LineSolutions(rows[r], Width) = {}
    \/ \E c \in 1..Width : LineSolutions(cols[c], Height) = {}

IsSolution(res) == res.kind \in {"grid", "list"}
CCFinished == pc \in {"cc_done", "naive", "done"}

RECURSIVE Pascal(_, _)
\* The binomial coefficient C(n, k) by Pascal's rule.
Pascal(n, k) ==
    IF k = 0 THEN 1
    ELSE IF n <= 0 THEN 0
    ELSE Pascal(n - 1, k - 1) + Pascal(n - 1, k)

RECURSIVE SortedSeq(_)
\* The elements of a finite set of integers, ascending.
SortedSeq(S) ==
    IF S = {} THEN <<>>
    ELSE LET x == CHOOSE y \in S : \A z \in S : y <= z
         IN  <<x>> \o SortedSeq(S \ {x})

\* The 0-based positions where the runs of s start, left to right.
StartsOf(s) == LET st == SortedSeq(RunStarts(s)) IN [k \in 1..Len(st) |-> st[k] - 1]

\* a comes before b in lexicographic order (tuples of one length).
LexLess(a, b) ==
    \E k \in 1..Len(a) : a[k] < b[k] /\ \A j \in 1..(k - 1) : a[j] = b[j]

\* The list of length n with the runs of c packed to the left, one empty
\* cell between consecutive runs.
LeftPacked(c, n) ==
    LET start(k) == Sum(SubSeq(c, 1, k - 1)) + (k - 1)
    IN  [i \in 1..n |->
            IF \E k \in 1..Len(c) : start(k) < i /\ i <= start(k) + c[k] THEN 1 ELSE 0]

\* The grids that satisfy the puzzle, and the order ClueChooser's nested
\* per-row enumeration induces on them: grid a comes before grid b when, at
\* the first row where they differ, a's run starts come first.
AllSolutions == {d \in AllGridData : LineSolves(d)}
GridLess(a, b) ==
    \E r \in 1..Height :
        /\ LexLess(StartsOf(a[r]), StartsOf(b[r]))
        /\ \A q \in 1..(r - 1) : a[q] = b[q]

RECURSIVE Flatten(_)
\* The numbers of an argument list, left to right, an iterable replaced by
\* the numbers it holds.
Flatten(items) ==
    IF items = <<>> THEN <<>>
    ELSE (IF Head(items).tag = "int" THEN <<Head(items).num>> ELSE Flatten(Head(items).items))
         \o Flatten(Tail(items))

\* A list of numbers without its zeros.
DropZeros(s) == LET positive(x) == x # 0 IN SelectSeq(s, positive)

\* The clue list raw with its longest prefix and its longest suffix of
\* clues without a run cut off, each clue left without its zeros.
Stripped(raw) ==
    LET has_run == {i \in 1..Len(raw) : \E k \in 1..Len(raw[i]) : raw[i][k] # 0}
        lo == CHOOSE i \in has_run : \A j \in has_run : i <= j
        hi == CHOOSE i \in has_run : \A j \in has_run : j <= i
    IN  IF has_run = {} THEN <<>>
        ELSE [j \in 1..(hi - lo + 1) |-> DropZeros(raw[lo + j - 1])]

-----------------------------------------------------------------------------
(* The claims. *)

\* C1: every grid either solver returns (alone, or in the list returned
\* with collect=True) has the puzzle's dimensions, satisfies every row clue
\* and every column clue, and passes puzzle.satisfied_by.
C1_ReturnedGridsSatisfy ==
    \A res \in {cc_result, n_result} :
        IsSolution(res) =>
            /\ Len(res.grids) >= 1
            /\ \A i \in 1..Len(res.grids) :
                  LET g == res.grids[i]
                      sat == GramSatisfiedBy(rows, cols, g)
                  IN  /\ g.height = Height
                      /\ g.width = Width
                      /\ LineSolves(g.grid)
                      /\ sat.err = "none" /\ sat.val

C1_Witness ==
    /\ pc = "done"
    /\ collect
    /\ cc_result.kind = "list" /\ Len(cc_result.grids) = 2
    /\ n_result.kind = "list" /\ Len(n_result.grids) = 2
    /\ Height = 2 /\ Width = 2

\* C2: ClueChooser.solve() never returns INC, returns a solution whenever a
\* satisfying grid exists, and returns DNE only when none exists.
C2_ClueChooserComplete ==
    CCFinished =>
        /\ cc_result.kind # "INC"
        /\ Solvable => IsSolution(cc_result)
        /\ cc_result.kind = "DNE" => ~Solvable

\* C3: NaiveSolver.solve() scans each of the 2^(height*width) boolean grids
\* once, returns a solution when the best satisfied_count is height + width
\* and DNE otherwise (so for every unsolvable puzzle), and never INC.
C3_NaiveExhaustive ==
    pc = "done" =>
        /\ n_idx = 2 ^ (Height * Width)
        /\ {NaiveGrid(k).grid : k \in 0..(n_idx - 1)} = AllGridData
        /\ maxim_num = BestCount
        /\ n_result.kind # "INC"
        /\ IF BestCount = Height + Width
           THEN IsSolution(n_result)
           ELSE n_result.kind = "DNE"
        /\ ~Solvable => n_result.kind = "DNE"

C3_Witness ==
    /\ pc = "done"
    /\ Height = 2 /\ Width = 2
    /\ n_idx = 16
    /\ ~collect
    /\ n_result.kind = "grid"

\* C4: on every puzzle the two solvers agree: one returns DNE iff the other
\* does, and one returns a solution iff the other does.
C4_SolversAgree ==
    pc = "done" =>
        /\ (cc_result.kind = "DNE") <=> (n_result.kind = "DNE")
        /\ IsSolution(cc_result) <=> IsSolution(n_result)

\* C5: when some row clue has no line-solution of length width, or some
\* column clue none of length height, ClueChooser.solve() returns DNE as a
\* value and never enters the search.
C5_UnfillableLineIsDNE ==
    (pc # "start" /\ SomeLineUnfillable) =>
        /\ ~cc_searched
        /\ cc_result.kind = "DNE"

\* C6: clue.satisfied_by(sequence) is true iff the lengths of the maximal
\* runs of truthy cells of the sequence, left to right, are the clue's runs;
\* the empty clue is satisfied exactly by the sequences with no truthy cell.
C6_SatisfiedIffRunsMatch ==
    pc = "checked" =>
        /\ sat_result <=> (RunLengths(sequence) = clue)
        /\ clue = <<>> =>
              (sat_result <=> \A i \in 1..Len(sequence) : Bool(sequence[i]) = 0)

C6_Witness ==
    /\ pc = "checked"
    /\ sat_result
    /\ clue = <<1, 2>>
    /\ sequence = <<2, NoneCell, 1, 2>>

\* C7: the iteration of ClueSolutions(clue, n) yields every boolean list of
\* length n that satisfies the clue.
C7_IterationComplete ==
    pc = "exhausted" =>
        \A s \in BoolSeqs(target_length) :
            SatisfiedBy(clue, s) => \E i \in 1..Len(yielded) : yielded[i] = s

C7_Witness ==
    /\ pc = "exhausted"
    /\ clue = <<1, 1, 1>>
    /\ target_length = 7
    /\ Len(yielded) = 10

\* C8: for every clue and n >= 0 the lists yielded are pairwise distinct, of
\* length n, satisfy the clue, and are as many as len(ClueSolutions(clue, n)).
C8_YieldedMatchLen ==
    pc = "exhausted" =>
        /\ \A i, j \in 1..Len(yielded) : yielded[i] = yielded[j] => i = j
        /\ \A i \in 1..Len(yielded) :
              /\ Len(yielded[i]) = target_length
              /\ SatisfiedBy(clue, yielded[i])
        /\ len_result = Ok(Len(yielded))

\* C9: for n >= X + p - 1, len(ClueSolutions(clue, n)) is C(n + 1 - X, p):
\* 1 at the exact fit, 1 for the empty clue, and the listed examples.
C9_LenIsBinomial ==
    (pc = "len_called" /\ target_length >= Sum(clue) + Len(clue) - 1) =>
        /\ len_result = Ok(Pascal(target_length + 1 - Sum(clue), Len(clue)))
        /\ target_length = Sum(clue) + Len(clue) - 1 => len_result = Ok(1)
        /\ clue = <<>> => len_result = Ok(1)
        /\ (clue = <<1, 1, 1>> /\ target_length = 5) => len_result = Ok(1)
        /\ (clue = <<1, 1, 1>> /\ target_length = 7) => len_result = Ok(10)
        /\ (clue = <<5>> /\ target_length = 10) => len_result = Ok(6)
        /\ (clue = <<2, 3>> /\ target_length = 10) => len_result = Ok(15)

C9_Witness ==
    /\ pc = "len_called"
    /\ clue = <<2, 3>>
    /\ target_length = 10
    /\ len_result = Ok(15)

\* C10: for a non-empty clue and 0 <= n < X + p - 1,
\* len(ClueSolutions(clue, n)) returns 0.
C10_TooShortIsZero ==
    (pc = "len_called" /\ clue # <<>> /\ target_length < Sum(clue) + Len(clue) - 1) =>
        len_result = Ok(0)

\* C11: ClueSolutions(clue, n) yields its solutions in lexicographic order of
\* the tuple of run start positions, and the first one has every run packed
\* to the left with single-cell gaps.
C11_LexicographicOrder ==
    pc \in {"iterating", "exhausted"} =>
        /\ yielded # <<>> => yielded[1] = LeftPacked(clue, target_length)
        /\ \A i \in 1..Len(yielded) : Len(StartsOf(yielded[i])) = Len(clue)
        /\ \A i \in 1..(Len(yielded) - 1) :
              LexLess(StartsOf(yielded[i]), StartsOf(yielded[i + 1]))

C11_Witness ==
    /\ pc = "exhausted"
    /\ clue = <<1, 2>>
    /\ Len(yielded) = 6
    /\ yielded[1] = <<1, 0, 1, 1, 0, 0>>
    /\ yielded[2] = <<1, 0, 0, 1, 1, 0>>
    /\ yielded[6] = <<0, 0, 1, 0, 1, 1>>

\* C12: on a solvable puzzle ClueChooser.solve(collect=True) returns the list
\* of all satisfying grids, each once, in the order induced by the per-row
\* enumeration order with row 0 outermost; solve(collect=False) returns the
\* first element of that list.
C12_CollectAllInOrder ==
    (CCFinished /\ Solvable) =>
        IF collect
        THEN /\ cc_result.kind = "list"
             /\ {cc_result.grids[i].grid : i \in 1..Len(cc_result.grids)} = AllSolutions
             /\ Len(cc_result.grids) = Cardinality(AllSolutions)
             /\ \A i \in 1..(Len(cc_result.grids) - 1) :
                   GridLess(cc_result.grids[i].grid, cc_result.grids[i + 1].grid)
        ELSE /\ cc_result.kind = "grid"
             /\ cc_result.grids[1].grid \in AllSolutions
             /\ \A d \in AllSolutions :
                   d = cc_result.grids[1].grid \/ GridLess(cc_result.grids[1].grid, d)

\* C13: Nonogram(rows, cols) stores each clue list with its maximal prefix
\* and maximal suffix of empty clues removed, empty clues between non-empty
\* ones kept, a list of only empty clues stored as the empty list; height is
\* the number of stored row clues, width the number of stored column clues
\* and num_clues their sum.
C13_EndsStripped ==
    pc = "gram_built" =>
        /\ rows = Stripped(raw_rows)
        /\ cols = Stripped(raw_cols)
        /\ Height = Len(Stripped(raw_rows))
        /\ Width = Len(Stripped(raw_cols))
        /\ NumClues = Len(Stripped(raw_rows)) + Len(Stripped(raw_cols))

C13_Witness ==
    /\ pc = "gram_built"
    /\ raw_rows = <<<<0>>, <<1>>, <<>>>>
    /\ raw_cols = <<<<0, 2>>, <<>>, <<1>>>>
    /\ rows = <<<<1>>>>
    /\ cols = <<<<2>>, <<>>, <<1>>>>
    /\ NumClues = 4

\* C14: for a grid of the puzzle's dimensions satisfied_count(grid) is the
\* number of row clues satisfied by their rows plus the number of column
\* clues satisfied by their columns, between 0 and height + width, and
\* satisfied_by(grid) is true exactly when that count is num_clues.
C14_CountIsRowsPlusCols ==
    <<array.height, array.width>> = <<Height, Width>> =>
        /\ pc = "counted" =>
              /\ call_result.err = "none"
              /\ call_result.val = LineCount(array.grid)
              /\ 0 <= call_result.val /\ call_result.val <= Height + Width
        /\ pc = "by_checked" =>
              /\ call_result.err = "none"
              /\ call_result.val <=> (LineCount(array.grid) = NumClues)
              /\ call_result.val <=> (SatisfiedCount(rows, cols, array) = Ok(NumClues))

C14_Witness ==
    /\ pc = "counted"
    /\ rows = <<<<1>>, <<1>>>>
    /\ cols = <<<<1>>, <<1>>>>
    /\ array.grid = <<<<1, 0>>, <<1, 0>>>>
    /\ call_result = Ok(2)

C15_FlattenedWithoutZeros ==
    (pc = "clue_built" /\ \A i \in 1..Len(Flatten(args)) : Flatten(args)[i] >= 0) =>
        /\ new_clue.err = "none"
        /\ new_clue.val = DropZeros(Flatten(args))
        /\ \A i \in 1..Len(new_clue.val) : new_clue.val[i] >= 1
        /\ (\A i \in 1..Len(Flatten(args)) : Flatten(args)[i] = 0) => new_clue.val = <<>>

C15_Witness ==
    /\ pc = "clue_built"
    /\ args = <<Num(0), Iterable(<<Num(2), Num(1)>>)>>
    /\ new_clue = Ok(<<2, 1>>)

\* C16: Nonoclue(args) raises ValueError whenever a supplied value is
\* negative, at any position and any nesting depth; no clue is produced.
C16_NegativeRaises ==
    (pc = "clue_built" /\ \E i \in 1..Len(Flatten(args)) : Flatten(args)[i] < 0) =>
        new_clue.err = "ValueError"

C16_Witness ==
    /\ pc = "clue_built"
    /\ args = <<Num(1), Iterable(<<Iterable(<<Num(-1)>>)>>)>>
    /\ new_clue.err = "ValueError"

\* C18: on a NonogridArray of size height x width, reading or writing index
\* (r, c) raises IndexError whenever r < 0, r >= height, c < 0 or c >= width
\* (a negative index is not wrapped, every index is invalid on a 0 x 0
\* grid), and a rejected write leaves every cell unchanged.
C18_OutOfRangeRaises ==
    (/\ pc = "index_done"
     /\ \/ call.r < 0 \/ call.r >= call.before.height
        \/ call.c < 0 \/ call.c >= call.before.width) =>
        /\ call_result.err = "IndexError"
        /\ array = call.before

C18_Witness ==
    /\ pc = "index_done"
    /\ call.name = "setitem"
    /\ call.before.height = 2 /\ call.before.width = 2
    /\ call.r = -1 /\ call.c = 1
    /\ call_result.err = "IndexError"
    /\ array = call.before

\* C19: NonogridArray(height, width, data, default_val=d) has height rows of
\* width cells; cell (r, c) is data[r][c] when data has a row r with an
\* element c, and d otherwise; rows of data beyond height and elements
\* beyond width are left out, and dims is (height, width) whatever the shape
\* of data.
C19_DataPaddedAndTruncated ==
    pc = "array_built" =>
        /\ <<array.height, array.width>> = <<call.height, call.width>>
        /\ Len(array.grid) = call.height
        /\ \A r \in 1..call.height :
              /\ Len(array.grid[r]) = call.width
              /\ \A c \in 1..call.width :
                    /\ GetItem(array, r - 1, c - 1).err = "none"
                    /\ GetItem(array, r - 1, c - 1).val =
                          IF r <= Len(call.data) /\ c <= Len(call.data[r])
                          THEN call.data[r][c] ELSE call.default_val

C19_Witness ==
    /\ pc = "array_built"
    /\ call.height = 2 /\ call.width = 2
    /\ Len(call.data) = 3
    /\ Len(call.data[1]) = 3 /\ Len(call.data[2]) = 1
    /\ call.default_val = 0
    /\ array.grid = <<<<call.data[1][1], call.data[1][2]>>, <<call.data[2][1], 0>>>>

\* C20: the value solve() of either solver returns is falsy exactly when it
\* is a SolveFailure: DNE and INC are falsy, a returned grid is truthy (a
\* grid without cells too), and solve(collect=True) never returns an empty
\* list.
C20_FalsyIffFailure ==
    \A res \in {cc_result, n_result} :
        res.kind \in {"grid", "list", "DNE", "INC"} =>
            /\ ~Truthy(res) <=> res.kind \in {"DNE", "INC"}
            /\ res.kind = "grid" => Truthy(res)
            /\ res.kind = "list" => Len(res.grids) >= 1
            /\ collect => res.kind # "grid"

C20_Witness ==
    /\ pc = "done"
    /\ collect
    /\ cc_searched
    /\ cc_result.kind = "DNE" /\ ~Truthy(cc_result)
    /\ n_result.kind = "DNE" /\ ~Truthy(n_result)
    /\ Height = 2 /\ Width = 2

\* C21: a solve() call on either solver leaves the puzzle as it was (the row
\* clue list, the column clue list and every clue's runs), and a second
\* solve() on the same solver objects hands back what the first did.
C21_PuzzleUnchanged ==
    /\ [][rows' = rows /\ cols' = cols]_vars
    /\ []((pc = "done" /\ earlier # <<>>) => <<cc_result, n_result>> = earlier[1])

C21_Witness ==
    /\ pc = "done"
    /\ earlier # <<>>
    /\ collect
    /\ cc_result.kind = "list" /\ Len(cc_result.grids) = 2
    /\ earlier[1] = <<cc_result, n_result>>
    /\ Height = 2 /\ Width = 2

\* C22: on every puzzle, solve() of the NaiveSolver and of the ClueChooser
\* (collect either way) ends with one result, a grid, a list of grids or a
\* SolveFailure, and the ClueChooser's recursion is never deeper than the
\* height. Stated on the ended calls: whenever both calls have ended, each
\* has handed back such a value.
ReturnedValue(res) == res.kind \in {"grid", "list", "DNE", "INC"}

C22_EndsWithResult ==
    /\ Len(frames) <= Height
    /\ pc = "done" => ReturnedValue(cc_result) /\ ReturnedValue(n_result)

\* C23: a ClueSolutions object keeps no state between enumerations: every
\* iteration started on it yields the same sequence from the beginning,
\* also when one is started while an earlier one is only partly consumed.
\* Of any two iterations the shorter output is the beginning of the longer,
\* and an exhausted one has yielded every solution of the line.
IsPrefix(a, b) == Len(a) <= Len(b) /\ \A i \in 1..Len(a) : a[i] = b[i]

C23_Restartable ==
    pc = "restart" =>
        /\ \A j, k \in 1..Len(gens) :
              IsPrefix(gen_yielded[j], gen_yielded[k]) \/ IsPrefix(gen_yielded[k], gen_yielded[j])
        /\ \A k \in 1..Len(gens) :
              /\ gens[k].done =>
                    /\ {gen_yielded[k][i] : i \in 1..Len(gen_yielded[k])}
                          = LineSolutions(clue, target_length)
                    /\ Len(gen_yielded[k]) = Cardinality(LineSolutions(clue, target_length))
              /\ gen_yielded[k] # <<>> =>
                    gen_yielded[k][1] = LeftPacked(clue, target_length)

C23_Witness ==
    /\ pc = "restart"
    /\ clue = <<1, 1>> /\ target_length = 4
    /\ Len(gens) = 2
    /\ ~gens[1].done /\ Len(gen_yielded[1]) = 2
    /\ gens[2].done /\ Len(gen_yielded[2]) = 3
    /\ gen_yielded[2][1] = gen_yielded[1][1] /\ gen_yielded[2][2] = gen_yielded[1][2]

\* C24: set_col(c, data, default_val) fills column c as set_row fills a
\* row: given a list of values or an iterator over them and a column of the
\* grid, the call succeeds, cell (r, c) becomes the r-th value of data when
\* there is one and the padding value otherwise, values beyond the height
\* are ignored and the cells of the other columns keep their values.
Padding == IF call.default_val # NoneCell THEN call.default_val ELSE call.before.default_val

C24_SetColFills ==
    (/\ pc = "filled"
     /\ call.name = "set_col"
     /\ call.data.kind \in {"list", "iter"}
     /\ 0 <= call.idx /\ call.idx < array.width) =>
        /\ call_result.err = "none"
        /\ \A r \in 1..array.height, c \in 1..array.width :
              array.grid[r][c] =
                  IF c # call.idx + 1 THEN call.before.grid[r][c]
                  ELSE IF r <= Len(call.data.items) THEN call.data.items[r]
                  ELSE Padding

\* C25: set_row(r, data, default_val) on a row of the grid sets cell (r, c)
\* to the c-th value of data for c < min(width, len(data)) and to the
\* padding value in the remaining columns, the padding value being
\* default_val when it is not None and the constructor's default otherwise;
\* values beyond the width are ignored and the other rows are unchanged.
C25_SetRowFills ==
    (/\ pc = "filled"
     /\ call.name = "set_row"
     /\ 0 <= call.idx /\ call.idx < array.height) =>
        /\ call_result.err = "none"
        /\ <<array.height, array.width, array.default_val>>
              = <<call.before.height, call.before.width, call.before.default_val>>
        /\ Len(array.grid) = array.height
        /\ \A r \in 1..array.height :
              /\ Len(array.grid[r]) = array.width
              /\ \A c \in 1..array.width :
                    array.grid[r][c] =
                        IF r # call.idx + 1 THEN call.before.grid[r][c]
                        ELSE IF c <= Len(call.data.items) THEN call.data.items[c]
                        ELSE Padding

C25_Witness ==
    /\ pc = "filled"
    /\ call.name = "set_row"
    /\ call.idx = 1
    /\ array.height = 2 /\ array.width = 2
    /\ array.default_val = 0
    /\ call.default_val = NoneCell
    /\ Len(call.data.items) = 1
    /\ array.grid = <<call.before.grid[1], <<FillValue(1), 0>>>>


\* C26: NaiveSolver.max_sat(collect=True) returns (m, L) with m the largest
\* satisfied_count over all boolean grids of the puzzle's dimensions and L
\* the grids that reach m, each once, in the order _grid_iterator yields
\* them (row 0 first, False before True, the first cell of a row first);
\* max_sat(collect=False) returns (m, g) with g the first element of L.
FlatBits(d) ==
    [k \in 1..(Height * Width) |-> d[((k - 1) \div Width) + 1][((k - 1) % Width) + 1]]
BitLess(a, b) ==
    \E k \in 1..(Height * Width) :
        /\ FlatBits(a)[k] < FlatBits(b)[k]
        /\ \A j \in 1..(k - 1) : FlatBits(a)[j] = FlatBits(b)[j]
\* The number of grids of S that come before d.
RankIn(S, d) == Cardinality({e \in S : BitLess(e, d)})

C26_MaxSatAllBest ==
    (pc = "naive" /\ n_idx = NumGrids) =>
        LET ms == MaxSat(maxim_num, maxim_list, collect)
            best == BestCount
            BestGrids == {d \in AllGridData : LineCount(d) = best}
        IN  /\ ms.num = best
            /\ IF collect
               THEN /\ ms.result.kind = "list"
                    /\ Len(ms.result.grids) = Cardinality(BestGrids)
                    /\ \A k \in 1..Len(ms.result.grids) :
                          /\ ms.result.grids[k].grid \in BestGrids
                          /\ RankIn(BestGrids, ms.result.grids[k].grid) = k - 1
               ELSE /\ ms.result.kind = "grid"
                    /\ ms.result.grids[1].grid \in BestGrids
                    /\ RankIn(BestGrids, ms.result.grids[1].grid) = 0

C26_Witness ==
    /\ pc = "naive" /\ n_idx = NumGrids
    /\ collect
    /\ Height = 2 /\ Width = 2
    /\ 0 < maxim_num /\ maxim_num < NumClues
    /\ Len(maxim_list) = 3
    /\ maxim_list[1].grid # maxim_list[2].grid

\* C27: for a subclass that keeps the inherited solve(), NonogramBounder.solve
\* returns max_sat's result when n_sat equals nonogram.num_clues and INC
\* otherwise; NonogramSolver.solve returns the same result in the first
\* case and DNE otherwise, and so never returns INC.
C27_InheritedSolve ==
    pc = "abc_done" =>
        /\ call.name = "NonogramBounder.solve" =>
              call.returned = IF call.n_sat = call.num_clues THEN call.result
                              ELSE Res("INC", <<>>)
        /\ call.name = "NonogramSolver.solve" =>
              /\ call.returned = IF call.n_sat = call.num_clues THEN call.result
                                 ELSE Res("DNE", <<>>)
              /\ call.returned.kind # "INC"

C27_Witness ==
    /\ pc = "abc_done"
    /\ call.name = "NonogramSolver.solve"
    /\ call.n_sat = 2 /\ call.num_clues = 3
    /\ call.result.kind = "list" /\ Len(call.result.grids) = 2
    /\ call.returned.kind = "DNE"

\* C28: the legacy Nonogram.satisfied_by(solution), given more rows (or
\* columns) than there are clues, returns true only if every extra row (or
\* column) holds no filled cell, however many extra lines there are.
C28_ExtraLinesEmpty ==
    (pc = "legacy_done" /\ sat_result) =>
        /\ \A r \in (Len(rows) + 1)..Len(call.solution) :
              \A c \in 1..Len(call.solution[r]) : call.solution[r][c] = 0
        /\ \A c \in (Len(cols) + 1)..Len(call.solution[1]) :
              \A r \in 1..Len(call.solution) : call.solution[r][c] = 0

\* C29: a grid the ClueChooser has recorded is a snapshot: the later pops
\* and appends on grid_builder change no cell of a recorded grid, so every
\* grid of the list solve(collect=True) returns satisfies the puzzle when
\* the call returns; and whenever _find_solution_rec is at row index i,
\* between two steps of its loop and so at its return, grid_builder holds
\* exactly i rows.
C29_RecordedSnapshot ==
    /\ [][pc = "cc" =>
            /\ Len(collector') >= Len(collector)
            /\ \A i \in 1..Len(collector) : collector'[i] = collector[i]]_vars
    /\ [](pc = "cc" =>
            /\ Len(grid_builder) = CurIdx - 1
            /\ \A i \in 1..Len(collector) : LineSolves(collector[i].grid))
    /\ []((CCFinished /\ cc_result.kind = "list") =>
            /\ cc_result.grids = collector
            /\ \A i \in 1..Len(cc_result.grids) : LineSolves(cc_result.grids[i].grid))

C29_Witness ==
    /\ pc = "cc"
    /\ collect
    /\ Height = 2 /\ Width = 2
    /\ Len(collector) = 1
    /\ CurIdx = 2
    /\ Len(grid_builder) = 1
    /\ grid_builder[1] # collector[1].grid[1]
    /\ LineSolves(collector[1].grid)

\* C30: on the puzzle without rows and columns (Nonogram([], []), and
\* Nonogram([[0]], [[0]]) after trimming) ClueChooser.solve() returns a
\* result instead of raising: the empty 0 x 0 grid, as NaiveSolver.solve()
\* does (the list holding it when collecting).
C30_EmptyPuzzleSolved ==
    (pc = "done" /\ Height = 0 /\ Width = 0) =>
        /\ n_result = IF collect THEN Res("list", <<NonogridArray(0, 0, <<>>)>>)
                      ELSE Res("grid", <<NonogridArray(0, 0, <<>>)>>)
        /\ cc_result = n_result

====
